---- MODULE Spec2Model ----
(***************************************************************************)
(* fetchWithParallelProxies (src/src/App.tsx): a feed is fetched through   *)
(* every CORS proxy at once; the first proxy that answers with an OK       *)
(* status is marked as the winner and the others are aborted; a 45 s timer *)
(* and the caller's AbortSignal take part in the race.                     *)
(* handleLoadFeed and handleCancelLoad (same file) are its caller: they    *)
(* keep the controller of the load in abortControllerRef and write the     *)
(* feed, the loading flag, the loading status and the error banner.        *)
(*                                                                         *)
(* One step of the model is one task of the JavaScript event loop together *)
(* with the microtasks it leaves behind: promise reactions run to          *)
(* completion before the next network event, timer or user action.         *)
(***************************************************************************)
EXTENDS Integers, Sequences, FiniteSets, TLC

\* CORS_PROXIES.length
NumProxies == 3

\* How many times the caller may call abort() on the external controller.
MaxCancelSignals == 2

\* How many times handleLoadFeed is called.
MaxRequests == 2

\* Array indices of CORS_PROXIES / proxyControllers / fetchPromises.
Paths == 0 .. (NumProxies - 1)

\* The calls of handleLoadFeed, numbered in the order they are made.
Requests == 1 .. MaxRequests

\* What the server behind a proxy does with the request:
\*   "ok"        answers with an OK status and then delivers the whole body
\*   "bodyfault" answers with an OK status, then the body download breaks
\*   "http"      answers with a non-OK status
\*   "network"   the request itself fails (fetch rejects)
\*   "hang"      never answers
Plans == {"ok", "bodyfault", "http", "network", "hang"}

\* The messages of the errors the function throws.
Cancelled == "Cancelled"
FailedToLoad == "Failed to load feed. The podcast server may be slow or unavailable."

\* The error parseFeed throws when the text is not a feed.
InvalidFeed == "Invalid RSS feed"

\* The error a throwing onStatus callback raises.
SinkError == "SinkError"

\* The labels handed to onStatus.
Connecting == "Connecting to feed..."
Downloading == "Downloading feed data..."
Parsing == "Parsing episodes..."
Labels == {Connecting, Downloading, Parsing}

\* States of one element of fetchPromises: not created, awaiting fetch(),
\* awaiting response.text(), fulfilled with the text, or rejected with the
\* named error.
PendingStates == {"fetching", "reading"}
RejectedStates == {"HTTP", "TypeError", "BodyError", "AbortError", SinkError}
PromiseStates == {"none", "text"} \cup PendingStates \cup RejectedStates

\* plan           the network's behaviour per proxy (the environment)
\* call           one invocation of fetchWithParallelProxies and its signal
\* cancelSignals  abort() calls made so far on the external controller
\* observed       the proxies whose OK response was observed, in order
\* app            the App component: its state, abortControllerRef and the
\*                handleLoadFeed invocations made so far
VARIABLES plan, call, cancelSignals, observed, app

vars == <<plan, call, cancelSignals, observed, app>>

\* The text a proxy delivers.
BodyOf(i) == <<"rss", i>>

NoResult == <<>>

\* The invocation before it is made: nothing exists yet.
NotCalled ==
    [ state            |-> "idle",
      aborted          |-> FALSE,
      listener         |-> FALSE,
      removals         |-> 0,
      sinkThrows       |-> {},
      proxyControllers |-> [i \in Paths |-> "none"],
      abortCalls       |-> [i \in Paths |-> 0],
      fetchPromises    |-> [i \in Paths |-> "none"],
      winningIndex     |-> -1,
      timer            |-> "unset",
      statusLog        |-> <<>>,
      caught           |-> "none",
      error            |-> "none",
      result           |-> NoResult ]

\* onStatus?.(label): the callback is invoked with the label.
onStatus(c, label) == [c EXCEPT !.statusLog = Append(@, label)]

\* The callback throws when invoked with a label of sinkThrows; the one the
\* application passes (setLoadingStatus) never does.
sinkFails(c, label) == label \in c.sinkThrows

\* Mutation of abort: the controller's signal is not handed to fetch(), so
\* aborting sets the flag and stops nothing.
abortFlagOnly(c, S) ==
    [c EXCEPT
        !.proxyControllers = [i \in Paths |-> IF i \in S THEN "aborted" ELSE @[i]],
        !.abortCalls       = [i \in Paths |-> IF i \in S THEN @[i] + 1 ELSE @[i]]]

\* c.abort() on each controller of S: the controller's signal becomes aborted
\* and the fetch() or body read bound to it rejects with an AbortError.
abort(c, S) ==
    [c EXCEPT
        !.proxyControllers = [i \in Paths |-> IF i \in S THEN "aborted" ELSE @[i]],
        !.abortCalls       = [i \in Paths |-> IF i \in S THEN @[i] + 1 ELSE @[i]],
        !.fetchPromises    = [i \in Paths |->
                                 IF i \in S /\ @[i] \in PendingStates
                                 THEN "AbortError" ELSE @[i]]]

\* Mutation of abortAll: the listener aborts no controller.
abortAllNobody(c) == c

\* const abortAll = () => proxyControllers.forEach((c) => c.abort())
abortAll(c) == abort(c, Paths)

\* Mutation of abortLosers: the winner aborts every controller, its own too.
abortLosersEveryone(c) == abort(c, Paths)

\* Mutation of abortLosers: the winner aborts no controller.
abortLosersNobody(c) == c

\* const abortLosers = () => proxyControllers.forEach((c, i) => { if (i !== winningIndex) c.abort() })
abortLosers(c) == abort(c, Paths \ {c.winningIndex})

\* Mutation of finally: the listener is not removed.
finallyKeepsListener(c) == c

\* finally { signal?.removeEventListener('abort', abortAll) }
finally(c) == [c EXCEPT !.listener = FALSE, !.removals = @ + 1]

\* Mutation of catch: signal.aborted is not looked at.
catchAlwaysFailed(c, err) ==
    finally([c EXCEPT !.state = "rejected", !.caught = err, !.error = FailedToLoad])

\* catch (err) { if (signal?.aborted) throw Cancelled; throw FailedToLoad }
catch(c, err) ==
    finally([c EXCEPT !.state  = "rejected",
                      !.caught = err,
                      !.error  = IF c.aborted THEN Cancelled ELSE FailedToLoad])

\* Mutation of PromiseAny: rejected as soon as one element is rejected.
PromiseAnyFirstSettled(p) ==
    IF \E i \in Paths : p[i] = "text" THEN "fulfilled"
    ELSE IF \E i \in Paths : p[i] \in RejectedStates THEN "rejected"
    ELSE "pending"

\* Promise.any(fetchPromises): fulfilled by the first fulfilled element,
\* rejected (AggregateError) once every element is rejected.
PromiseAny(p) ==
    IF \E i \in Paths : p[i] = "text" THEN "fulfilled"
    ELSE IF \A i \in Paths : p[i] \in RejectedStates THEN "rejected"
    ELSE "pending"

\* Mutation of awaitRace: a settlement is acted on again after the call ended.
awaitRaceResettles(c) ==
    IF PromiseAny(c.fetchPromises) = "fulfilled"
    THEN LET i == CHOOSE j \in Paths : c.fetchPromises[j] = "text"
         IN  finally(onStatus([c EXCEPT !.state = "fulfilled", !.result = BodyOf(i),
                                        !.error = "none"],
                              Parsing))
    ELSE IF c.timer = "fired" THEN catch(c, "Timeout")
    ELSE IF PromiseAny(c.fetchPromises) = "rejected" THEN catch(c, "AggregateError")
    ELSE c

\* const result = await Promise.race([Promise.any(fetchPromises), timeoutPromise]);
\* onStatus?.('Parsing episodes...'); return result
\* evaluated after every event; a settled call ignores later settlements.
awaitRace(c) ==
    IF c.state # "pending" THEN c
    ELSE IF PromiseAny(c.fetchPromises) = "fulfilled"
    THEN LET i == CHOOSE j \in Paths : c.fetchPromises[j] = "text"
         IN  IF sinkFails(c, Parsing)
             THEN catch(onStatus(c, Parsing), SinkError)
             ELSE finally(onStatus([c EXCEPT !.state = "fulfilled", !.result = BodyOf(i)],
                                   Parsing))
    ELSE IF c.timer = "fired" THEN catch(c, "Timeout")
    ELSE IF PromiseAny(c.fetchPromises) = "rejected" THEN catch(c, "AggregateError")
    ELSE c

\* Mutation of fetchWithParallelProxies: signal.aborted is not checked first.
fetchWithoutAbortCheck(c) ==
    [onStatus(c, Connecting) EXCEPT
        !.state            = "pending",
        !.proxyControllers = [i \in Paths |-> "live"],
        !.winningIndex     = -1,
        !.listener         = TRUE,
        !.fetchPromises    = [i \in Paths |-> "fetching"],
        !.timer            = "armed"]

\* The synchronous part of fetchWithParallelProxies, up to the await.
fetchWithParallelProxies(c) ==
    IF c.aborted
    THEN [c EXCEPT !.state = "rejected", !.error = Cancelled]
    ELSE IF sinkFails(c, Connecting)
    THEN [onStatus(c, Connecting) EXCEPT !.state = "rejected", !.error = SinkError]
    ELSE [onStatus(c, Connecting) EXCEPT
             !.state            = "pending",
             !.proxyControllers = [i \in Paths |-> "live"],
             !.winningIndex     = -1,
             !.listener         = TRUE,
             !.fetchPromises    = [i \in Paths |-> "fetching"],
             !.timer            = "armed"]

\* The caller's controller.abort(): the first call sets signal.aborted and
\* dispatches the abort event to the registered listener; later calls do nothing.
signalAbort(c) ==
    IF c.aborted THEN c
    ELSE LET c1 == [c EXCEPT !.aborted = TRUE]
         IN  IF c1.listener THEN awaitRace(abortAll(c1)) ELSE c1

\* Mutation of onResponseOk: winningIndex is not assigned before abortLosers.
onResponseOkUnmarked(c, i) ==
    awaitRace([onStatus(abortLosers(c), Downloading) EXCEPT !.fetchPromises[i] = "reading"])

\* fetch() resolved with response.ok: the attempt marks itself as the winner,
\* aborts the others, reports the download and awaits the body.
onResponseOk(c, i) ==
    LET c1 == [c EXCEPT !.winningIndex = i]
        c2 == abortLosers(c1)
        c3 == onStatus(c2, Downloading)
    IN  IF sinkFails(c, Downloading)
        THEN awaitRace([c3 EXCEPT !.fetchPromises[i] = SinkError])
        ELSE awaitRace([c3 EXCEPT !.fetchPromises[i] = "reading"])

\* Mutation of onSettled: a failing attempt aborts the whole race.
onSettledFailFast(c, i, s) ==
    IF s \in RejectedStates
    THEN awaitRace(abortAll([c EXCEPT !.fetchPromises[i] = s]))
    ELSE awaitRace([c EXCEPT !.fetchPromises[i] = s])

\* The attempt's promise settles as s (rejected, or fulfilled with the text).
onSettled(c, i, s) == awaitRace([c EXCEPT !.fetchPromises[i] = s])

\* Mutation of onTimeout: the timer's rejection does not take part in the race.
onTimeoutUnraced(c) == [c EXCEPT !.timer = "fired"]

\* Mutation of onTimeout: the timer aborts all controllers when it fires,
\* whether or not the call has ended.
onTimeoutAbortsAll(c) == awaitRace(abortAll([c EXCEPT !.timer = "fired"]))

\* setTimeout(() => reject(new Error('Timeout')), 45000)
onTimeout(c) == awaitRace([c EXCEPT !.timer = "fired"])


\* The App component after its first render: nothing loaded, nothing loading.
\* Requests, the feed and the controller are named by the number of the
\* handleLoadFeed call they belong to; 0 is null.
Mounted ==
    [ reqs               |-> [r \in Requests |-> NotCalled],
      handler            |-> [r \in Requests |-> "none"],
      started            |-> 0,
      abortControllerRef |-> 0,
      feed               |-> 0,
      isLoading          |-> FALSE,
      loadingStatus      |-> "",
      error              |-> "null",
      errorBy            |-> 0 ]

\* Request r's fetchWithParallelProxies has become c; its onStatus is
\* setLoadingStatus, so a label it emitted is the loading status now.
setLoadingStatus(a, r, c) ==
    IF Len(c.statusLog) > Len(a.reqs[r].statusLog)
    THEN [a EXCEPT !.reqs[r] = c, !.loadingStatus = c.statusLog[Len(c.statusLog)]]
    ELSE [a EXCEPT !.reqs[r] = c]

\* Mutation of afterParseFeed: signal.aborted is never looked at.
afterParseFeedUnguarded(a, r, parsed) ==
    LET c     == a.reqs[r]
        threw == IF c.state = "rejected" THEN c.error
                 ELSE IF parsed THEN "none" ELSE InvalidFeed
        a1    == IF threw = "none" THEN [a EXCEPT !.feed = r]
                 ELSE [a EXCEPT !.error = threw, !.errorBy = r]
        a2    == [a1 EXCEPT !.isLoading = FALSE, !.loadingStatus = ""]
        a3    == IF a2.abortControllerRef = r
                 THEN [a2 EXCEPT !.abortControllerRef = 0] ELSE a2
    IN  [a3 EXCEPT !.handler[r] = "done"]

\* handleLoadFeed after `await parseFeed(...)` for request r, whose
\* fetchWithParallelProxies has ended: parseFeed returns the feed or throws
\* (the call's error, or InvalidFeed when the text does not parse), then the
\* try, catch and finally blocks.
afterParseFeed(a, r, parsed) ==
    LET c     == a.reqs[r]
        live  == ~c.aborted
        threw == IF c.state = "rejected" THEN c.error
                 ELSE IF parsed THEN "none" ELSE InvalidFeed
        a1    == IF threw = "none"
                 THEN IF live THEN [a EXCEPT !.feed = r] ELSE a
                 ELSE IF live /\ threw # Cancelled
                      THEN [a EXCEPT !.error = threw, !.errorBy = r] ELSE a
        a2    == IF live THEN [a1 EXCEPT !.isLoading = FALSE, !.loadingStatus = ""]
                 ELSE a1
        a3    == IF a2.abortControllerRef = r
                 THEN [a2 EXCEPT !.abortControllerRef = 0] ELSE a2
    IN  [a3 EXCEPT !.handler[r] = "done"]

\* The microtasks after an event of request r: when its call has ended and
\* handleLoadFeed is still awaiting it, handleLoadFeed goes on.
resume(a, r, parsed) ==
    IF a.handler[r] = "awaiting" /\ a.reqs[r].state \in {"fulfilled", "rejected"}
    THEN afterParseFeed(a, r, parsed)
    ELSE a

\* An event of request r turned its call into c.
event(a, r, c, parsed) == resume(setLoadingStatus(a, r, c), r, parsed)

\* Mutation of handleLoadFeed: the previous request is not aborted.
handleLoadFeedKeepsPrevious(a) ==
    LET r  == a.started + 1
        a2 == [a EXCEPT !.started            = r,
                        !.abortControllerRef = r,
                        !.isLoading          = TRUE,
                        !.loadingStatus      = Connecting,
                        !.error              = "null",
                        !.errorBy            = 0,
                        !.handler[r]         = "awaiting"]
    IN  setLoadingStatus(a2, r, fetchWithParallelProxies(NotCalled))

\* handleLoadFeed(url) up to its await: the request held in
\* abortControllerRef is aborted, a new controller takes its place, the
\* state is reset and parseFeed starts fetchWithParallelProxies; then the
\* aborted request's handleLoadFeed goes on in a microtask.
handleLoadFeed(a) ==
    LET r   == a.started + 1
        old == a.abortControllerRef
        a1  == IF old # 0 THEN setLoadingStatus(a, old, signalAbort(a.reqs[old])) ELSE a
        a2  == [a1 EXCEPT !.started            = r,
                          !.abortControllerRef = r,
                          !.isLoading          = TRUE,
                          !.loadingStatus      = Connecting,
                          !.error              = "null",
                          !.errorBy            = 0,
                          !.handler[r]         = "awaiting"]
        a3  == setLoadingStatus(a2, r, fetchWithParallelProxies(NotCalled))
    IN  IF old # 0 THEN resume(a3, old, FALSE) ELSE a3

\* Mutation of handleCancelLoad: the loading flag is left alone.
handleCancelLoadKeepsFlag(a) ==
    LET old == a.abortControllerRef
        a1  == IF old # 0
               THEN [setLoadingStatus(a, old, signalAbort(a.reqs[old]))
                        EXCEPT !.abortControllerRef = 0]
               ELSE a
        a2  == [a1 EXCEPT !.error = "null", !.errorBy = 0]
    IN  IF old # 0 THEN resume(a2, old, FALSE) ELSE a2

\* handleCancelLoad(): the request held in abortControllerRef is aborted and
\* forgotten, the loading flag and the error are reset; then the aborted
\* request's handleLoadFeed goes on in a microtask.
handleCancelLoad(a) ==
    LET old == a.abortControllerRef
        a1  == IF old # 0
               THEN [setLoadingStatus(a, old, signalAbort(a.reqs[old]))
                        EXCEPT !.abortControllerRef = 0]
               ELSE a
        a2  == [a1 EXCEPT !.isLoading = FALSE, !.error = "null", !.errorBy = 0]
    IN  IF old # 0 THEN resume(a2, old, FALSE) ELSE a2

----------------------------------------------------------------------------

Init ==
    /\ plan \in [Paths -> Plans]
    /\ call = NotCalled
    /\ cancelSignals = 0
    /\ observed = <<>>
    /\ app = Mounted

\* fetchWithParallelProxies(url, signal, onStatus) is called.
Call ==
    /\ call.state = "idle"
    /\ call' = fetchWithParallelProxies(call)
    /\ UNCHANGED <<plan, cancelSignals, observed, app>>

\* The caller aborts the external signal.
ExternalAbort ==
    /\ cancelSignals < MaxCancelSignals
    /\ cancelSignals' = cancelSignals + 1
    /\ call' = signalAbort(call)
    /\ UNCHANGED <<plan, observed, app>>

\* A proxy answers with an OK status.
ResponseOk(i) ==
    /\ call.fetchPromises[i] = "fetching"
    /\ plan[i] \in {"ok", "bodyfault"}
    /\ call' = onResponseOk(call, i)
    /\ observed' = Append(observed, i)
    /\ UNCHANGED <<plan, cancelSignals, app>>

\* A proxy answers with a non-OK status: throw new Error(`HTTP ${response.status}`)
ResponseNotOk(i) ==
    /\ call.fetchPromises[i] = "fetching"
    /\ plan[i] = "http"
    /\ call' = onSettled(call, i, "HTTP")
    /\ UNCHANGED <<plan, cancelSignals, observed, app>>

\* The request to a proxy fails: fetch() rejects.
FetchFault(i) ==
    /\ call.fetchPromises[i] = "fetching"
    /\ plan[i] = "network"
    /\ call' = onSettled(call, i, "TypeError")
    /\ UNCHANGED <<plan, cancelSignals, observed, app>>

\* response.text() resolves: the attempt returns the text.
BodyArrives(i) ==
    /\ call.fetchPromises[i] = "reading"
    /\ plan[i] = "ok"
    /\ call' = onSettled(call, i, "text")
    /\ UNCHANGED <<plan, cancelSignals, observed, app>>

\* response.text() rejects: the download broke.
BodyFault(i) ==
    /\ call.fetchPromises[i] = "reading"
    /\ plan[i] = "bodyfault"
    /\ call' = onSettled(call, i, "BodyError")
    /\ UNCHANGED <<plan, cancelSignals, observed, app>>

\* The 45 s timer fires; it is never cleared.
DeadlineFires ==
    /\ call.timer = "armed"
    /\ call' = onTimeout(call)
    /\ UNCHANGED <<plan, cancelSignals, observed, app>>

Next ==
    \/ Call
    \/ ExternalAbort
    \/ \E i \in Paths : ResponseOk(i)
    \/ \E i \in Paths : ResponseNotOk(i)
    \/ \E i \in Paths : FetchFault(i)
    \/ \E i \in Paths : BodyArrives(i)
    \/ \E i \in Paths : BodyFault(i)
    \/ DeadlineFires

Spec == Init /\ [][Next]_vars

\* fetchWithParallelProxies called with an arbitrary onStatus callback, one
\* that may throw on some of the labels.
InitSink ==
    /\ plan \in [Paths -> Plans]
    /\ call \in {[NotCalled EXCEPT !.sinkThrows = s] : s \in SUBSET Labels}
    /\ cancelSignals = 0
    /\ observed = <<>>
    /\ app = Mounted

SinkSpec == InitSink /\ [][Next]_vars

\* A timer set with setTimeout fires: the event loop runs it.
FairSpec == Spec /\ WF_vars(DeadlineFires)

TypeOK ==
    /\ plan \in [Paths -> Plans]
    /\ call.state \in {"idle", "pending", "fulfilled", "rejected"}
    /\ call.aborted \in BOOLEAN
    /\ call.listener \in BOOLEAN
    /\ call.removals \in 0 .. 1
    /\ call.sinkThrows \subseteq Labels
    /\ call.proxyControllers \in [Paths -> {"none", "live", "aborted"}]
    /\ call.fetchPromises \in [Paths -> PromiseStates]
    /\ call.winningIndex \in {-1} \cup Paths
    /\ call.timer \in {"unset", "armed", "fired"}
    /\ call.caught \in {"none", "AggregateError", "Timeout", SinkError}
    /\ call.error \in {"none", Cancelled, FailedToLoad, SinkError}
    /\ cancelSignals \in 0 .. MaxCancelSignals

----------------------------------------------------------------------------
\* Shorthands used by the properties below.

Resolved == call.state \in {"fulfilled", "rejected"}

\* The step in which the external signal goes from not aborted to aborted.
SignalAborts == ~call.aborted /\ call'.aborted

\* The step in which the 45 s timer fires.
TimerFires == call.timer = "armed" /\ call'.timer = "fired"

\* Every attempt ended by itself with a non-OK status or a network fault.
AllFailedByThemselves ==
    \A i \in Paths : call.fetchPromises[i] \in {"HTTP", "TypeError", "BodyError"}

----------------------------------------------------------------------------
\* C1 (P1 single winner): unless the deadline fired first, an attempt that
\* returned its text makes the call resolve with that attempt's text, and the
\* controller of every other attempt has been aborted by then.
C1_SingleWinner ==
    \A i \in Paths :
        (call.fetchPromises[i] = "text" /\ call.caught # "Timeout")
            => /\ call.state = "fulfilled"
               /\ call.result = BodyOf(i)
               /\ call.winningIndex = i
               /\ \A j \in Paths \ {i} : call.proxyControllers[j] = "aborted"

\* Proxy 0 failed, proxy 1 delivered, proxy 2 never answered: the call returned
\* proxy 1's text and proxy 2 was aborted.
C1_Witness ==
    /\ plan = [i \in Paths |-> IF i = 0 THEN "http" ELSE IF i = 1 THEN "ok" ELSE "hang"]
    /\ call.state = "fulfilled"
    /\ call.result = BodyOf(1)
    /\ call.fetchPromises[0] = "HTTP"
    /\ call.fetchPromises[2] = "AbortError"
    /\ call.proxyControllers[2] = "aborted"
    /\ ~call.aborted
    /\ call.timer = "armed"

\* C2 (P2 first success wins): the attempt whose OK response is observed first,
\* whatever its index, is the one recorded in winningIndex, every other
\* attempt is aborted, also one that would have delivered too, and a text the
\* call returns is the text of that attempt.
C2_FirstSuccessWins ==
    Len(observed) > 0 =>
        LET w == observed[1]
        IN  /\ call.winningIndex = w
            /\ \A j \in Paths \ {w} : call.proxyControllers[j] = "aborted"
            /\ \A j \in Paths \ {w} : call.fetchPromises[j] \notin PendingStates \cup {"text"}
            /\ call.state = "fulfilled" => call.result = BodyOf(w)
            /\ Len(observed) = 1

\* Proxies 0 and 2 would both deliver; proxy 2 answered first and won, proxy 0
\* was aborted.
C2_Witness ==
    /\ plan[0] = "ok" /\ plan[2] = "ok"
    /\ observed = <<2>>
    /\ call.state = "fulfilled"
    /\ call.result = BodyOf(2)
    /\ call.winningIndex = 2
    /\ call.fetchPromises[0] = "AbortError"

\* C3 (first complete success): with no external cancel and no deadline, a call
\* fails only if no proxy would have delivered a complete body, and no attempt
\* is aborted as a loser of an attempt whose body then fails to arrive.
C3_FirstCompleteSuccess ==
    /\ (call.state = "rejected" /\ ~call.aborted /\ call.caught # "Timeout")
           => \A i \in Paths : plan[i] # "ok"
    /\ ~call.aborted =>
           \A w, j \in Paths :
               ~(/\ call.winningIndex = w
                 /\ call.fetchPromises[w] = "BodyError"
                 /\ call.fetchPromises[j] = "AbortError")

\* C4 (P3 all-fail aggregation): when every attempt has failed by itself and
\* the signal was not aborted, the call is rejected with the aggregate failure
\* (from the AggregateError, unless the deadline had fired before), and an
\* AggregateError is caught only once all attempts are rejected.
C4_AllFailAggregation ==
    /\ (AllFailedByThemselves /\ ~call.aborted)
           => /\ call.state = "rejected"
              /\ call.error = FailedToLoad
              /\ call.caught # "Timeout" => call.caught = "AggregateError"
    /\ call.caught = "AggregateError"
           => \A i \in Paths : call.fetchPromises[i] \in RejectedStates

\* All three proxies failed by themselves before the deadline and the call was
\* rejected with the aggregate failure.
C4_Witness ==
    /\ AllFailedByThemselves
    /\ ~call.aborted
    /\ call.timer = "armed"
    /\ call.state = "rejected"
    /\ call.caught = "AggregateError"
    /\ call.error = FailedToLoad

\* C5 (deadline honored): a call that started the race is eventually resolved,
\* and when the timer fires while the call is pending the call is rejected
\* with the failure in that very step, however many attempts are pending.
C5_DeadlineHonored ==
    /\ (call.state = "pending") ~> Resolved
    /\ [][(TimerFires /\ call.state = "pending")
             => (call'.state = "rejected" /\ call'.error = FailedToLoad)]_vars

\* All proxies hang, the timer fired, the call is rejected and all three
\* requests are still outstanding.
C5_Witness ==
    /\ \A i \in Paths : plan[i] = "hang"
    /\ call.timer = "fired"
    /\ call.state = "rejected"
    /\ call.caught = "Timeout"
    /\ \A i \in Paths : call.fetchPromises[i] = "fetching"

\* C6 (Timeout is told apart from AllPathsFailed): the error thrown when the
\* deadline fired is a Timeout error, not the error thrown when all paths failed.
C6_TimeoutDistinguished ==
    call.caught = "Timeout" => (call.error = "Timeout" /\ call.error # FailedToLoad)

\* C7 (P4 deadline cleanup): once the call was resolved by the deadline, no
\* attempt is still pending with a controller that was not aborted.
C7_DeadlineCleanup ==
    call.caught = "Timeout" =>
        \A i \in Paths :
            call.fetchPromises[i] \in PendingStates => call.proxyControllers[i] = "aborted"

\* C8 (P5 pre-cancelled short-circuit): a call made with an aborted signal is
\* rejected with Cancelled and creates no controller, issues no request, emits
\* no status, starts no timer and registers no listener, then or later.
C8_PreCancelled ==
    [][/\ (call.state = "idle" /\ call.aborted /\ call'.state # "idle")
           => /\ call'.state = "rejected"
              /\ call'.error = Cancelled
              /\ \A i \in Paths : call'.proxyControllers[i] = "none"
              /\ \A i \in Paths : call'.fetchPromises[i] = "none"
              /\ call'.statusLog = <<>>
              /\ call'.timer = "unset"
              /\ ~call'.listener
       /\ (call.state = "rejected" /\ call.timer = "unset") => call' = call]_vars

\* The call was made with an aborted signal: rejected with Cancelled, nothing
\* was created.
C8_Witness ==
    /\ call.state = "rejected"
    /\ call.error = Cancelled
    /\ call.aborted
    /\ call.timer = "unset"
    /\ \A i \in Paths : call.fetchPromises[i] = "none"
    /\ call.statusLog = <<>>

\* C9 (P6 mid-race cancellation): when the signal aborts while the call is
\* pending, the call is rejected with Cancelled in that step and the
\* controller of every attempt still pending is aborted once; no later step,
\* a repeated abort() included, aborts any controller again.
C9_MidRaceCancel ==
    [][/\ (SignalAborts /\ call.state = "pending")
           => /\ call'.state = "rejected"
              /\ call'.error = Cancelled
              /\ \A i \in Paths :
                     call.fetchPromises[i] \in PendingStates
                         => /\ call.abortCalls[i] = 0
                            /\ call'.abortCalls[i] = 1
                            /\ call'.proxyControllers[i] = "aborted"
                            /\ call'.fetchPromises[i] = "AbortError"
       /\ (call.error = Cancelled /\ call.caught = "AggregateError")
           => (call'.abortCalls = call.abortCalls /\ call'.error = Cancelled)]_vars

\* Proxy 1 had won and was downloading when the signal was aborted, twice: the
\* call was rejected with Cancelled and proxy 1's controller was aborted once.
C9_Witness ==
    /\ cancelSignals = 2
    /\ call.state = "rejected"
    /\ call.error = Cancelled
    /\ call.caught = "AggregateError"
    /\ call.winningIndex = 1
    /\ call.abortCalls[1] = 1
    /\ call.fetchPromises[1] = "AbortError"
    /\ call.timer = "armed"

\* C10 (external cancel is a race participant): when the signal aborts while
\* every attempt is still awaiting its response, the call is rejected with
\* Cancelled in that step: the timer has not fired and no response has come.
C10_CancelIsParticipant ==
    [][(/\ SignalAborts
        /\ call.state = "pending"
        /\ \A i \in Paths : call.fetchPromises[i] = "fetching")
           => /\ call'.state = "rejected"
              /\ call'.error = Cancelled
              /\ call'.timer = "armed"
              /\ \A i \in Paths : call'.fetchPromises[i] = "AbortError"
              /\ observed' = <<>>]_vars

\* All proxies hang and the signal was aborted: Cancelled, with the timer
\* still armed.
C10_Witness ==
    /\ \A i \in Paths : plan[i] = "hang"
    /\ call.state = "rejected"
    /\ call.error = Cancelled
    /\ call.timer = "armed"
    /\ call.winningIndex = -1
    /\ \A i \in Paths : call.fetchPromises[i] = "AbortError"

\* C11 (P7 listener cleanup): while the call is pending the listener is
\* registered; once a call that registered it has ended, by whichever exit,
\* removeEventListener has run exactly once and the listener is gone, so an
\* abort of the signal after that changes nothing but signal.aborted.
C11_ListenerCleanup ==
    /\ [](call.state = "pending" => (call.listener /\ call.removals = 0))
    /\ []((Resolved /\ call.timer # "unset") => (~call.listener /\ call.removals = 1))
    /\ [][(SignalAborts /\ Resolved) => call' = [call EXCEPT !.aborted = TRUE]]_vars

\* The deadline ended the call with all requests outstanding; the signal was
\* aborted afterwards and no controller was touched.
C11_Witness ==
    /\ call.state = "rejected"
    /\ call.caught = "Timeout"
    /\ call.aborted
    /\ call.removals = 1
    /\ \A i \in Paths : call.proxyControllers[i] = "live" /\ call.abortCalls[i] = 0

\* C12 (one terminal outcome): a call ends as exactly one of Success (a text,
\* no error), Failure or Cancelled (an error, no text), and once it has ended
\* no completion, timer or abort changes the outcome.
C12_OneOutcome ==
    /\ [](call.state = "fulfilled" => (call.result # NoResult /\ call.error = "none"))
    /\ [](call.state = "rejected"
             => (call.result = NoResult /\ call.error \in {Cancelled, FailedToLoad}))
    /\ [](~Resolved => (call.result = NoResult /\ call.error = "none"))
    /\ [][Resolved => /\ call'.state = call.state
                      /\ call'.result = call.result
                      /\ call'.error = call.error
                      /\ call'.caught = call.caught]_vars

\* The deadline rejected the call; an attempt delivered its text afterwards and
\* the call is still the rejected one.
C12_Witness ==
    /\ call.state = "rejected"
    /\ call.caught = "Timeout"
    /\ call.error = FailedToLoad
    /\ \E i \in Paths : call.fetchPromises[i] = "text"

\* C13 (cancellation before aggregate failure): a call that ends without a
\* text while the signal is aborted ends with Cancelled, not with the failure.
C13_CancelPrecedence ==
    [][(~Resolved /\ call'.state = "rejected" /\ call'.aborted)
           => (call'.error = Cancelled /\ call'.error # FailedToLoad)]_vars

\* Two proxies had failed by themselves and the third was pending when the
\* signal was aborted: Cancelled, although Promise.any rejected.
C13_Witness ==
    /\ call.fetchPromises[0] = "HTTP"
    /\ call.fetchPromises[1] = "TypeError"
    /\ call.fetchPromises[2] = "AbortError"
    /\ call.aborted
    /\ call.caught = "AggregateError"
    /\ call.error = Cancelled

\* C14 (winner before late cancel): an abort of the signal that arrives after
\* an attempt has been marked as the winner does not end the call with Cancelled.
C14_WinnerBeatsLateCancel ==
    [][(SignalAborts /\ call.state = "pending" /\ call.winningIndex # -1)
           => (call'.error # Cancelled /\ call'.state # "rejected")]_vars

\* C15 (the status sink cannot fail the race): no error thrown by onStatus
\* reaches the caller, none ends an attempt and none is what the catch caught.
C15_SinkCannotFail ==
    /\ call.error # SinkError
    /\ call.caught # SinkError
    /\ \A i \in Paths : call.fetchPromises[i] # SinkError

\* C16 (status ordering): the labels emitted are a prefix of connecting,
\* downloading, parsing; downloading has been emitted only once a winner is
\* recorded, by that winner, and parsing exactly when the call has returned
\* a text.
C16_StatusOrder ==
    /\ call.statusLog \in {<<>>, <<Connecting>>, <<Connecting, Downloading>>,
                            <<Connecting, Downloading, Parsing>>}
    /\ Len(call.statusLog) >= 2
           => (call.winningIndex # -1 /\ observed = <<call.winningIndex>>)
    /\ Len(call.statusLog) = 3 <=> call.state = "fulfilled"

\* Proxy 1 won and delivered: connecting, downloading, parsing.
C16_Witness ==
    /\ call.statusLog = <<Connecting, Downloading, Parsing>>
    /\ call.state = "fulfilled"
    /\ call.winningIndex = 1
    /\ call.result = BodyOf(1)

\* C17 (winningIndex is written at most once): once winningIndex holds an
\* index no step changes it, and at most one attempt ever assigns it.
C17_WinnerWrittenOnce ==
    /\ [][call.winningIndex # -1 => call'.winningIndex = call.winningIndex]_vars
    /\ [](Len(observed) <= 1)
    /\ [](call.winningIndex = -1 <=> observed = <<>>)

\* After the deadline proxy 2 answered and was marked; proxy 0, which would
\* have answered too, was aborted and never wrote winningIndex.
C17_Witness ==
    /\ call.caught = "Timeout"
    /\ call.winningIndex = 2
    /\ plan[0] = "ok"
    /\ call.fetchPromises[0] = "AbortError"
    /\ call.fetchPromises[2] = "text"

\* C18 (quiescence after the outcome): once the call has ended no step
\* assigns winningIndex, aborts a controller or invokes onStatus.
C18_Quiescence ==
    [][Resolved => /\ call'.winningIndex = call.winningIndex
                   /\ call'.abortCalls = call.abortCalls
                   /\ call'.proxyControllers = call.proxyControllers
                   /\ call'.statusLog = call.statusLog]_vars

\* C19 (a single failure is recovered locally): when an attempt fails by
\* itself while the call is pending and another attempt is still pending, the
\* call stays pending with no error, no controller is aborted and no other
\* attempt changes.
C19_LocalFailure ==
    [][\A i \in Paths :
          (/\ call.state = "pending"
           /\ call.fetchPromises[i] \in PendingStates
           /\ call'.fetchPromises[i] \in {"HTTP", "TypeError", "BodyError"}
           /\ \E j \in Paths \ {i} : call.fetchPromises[j] \in PendingStates)
              => /\ call'.state = "pending"
                 /\ call'.error = "none"
                 /\ call'.caught = "none"
                 /\ call'.proxyControllers = call.proxyControllers
                 /\ call'.abortCalls = call.abortCalls
                 /\ \A j \in Paths \ {i} : call'.fetchPromises[j] = call.fetchPromises[j]]_vars

\* Proxy 0 answered with a non-OK status; the other two requests go on and the
\* call is pending.
C19_Witness ==
    /\ call.state = "pending"
    /\ call.fetchPromises[0] = "HTTP"
    /\ call.fetchPromises[1] = "fetching"
    /\ call.fetchPromises[2] = "fetching"
    /\ \A i \in Paths : call.proxyControllers[i] = "live"
    /\ call.error = "none"

\* C20 (the sweep leaves the winner alone): the step in which attempt i wins
\* aborts the controller of every other attempt and leaves i's as it was, and
\* the winner's controller changes only in a step that aborts the external
\* signal.
C20_WinnerLeftAlone ==
    [][/\ \A i \in Paths :
              observed' = Append(observed, i)
                  => /\ call'.winningIndex = i
                     /\ call'.proxyControllers[i] = call.proxyControllers[i]
                     /\ call'.abortCalls[i] = call.abortCalls[i]
                     /\ \A j \in Paths \ {i} : call'.proxyControllers[j] = "aborted"
       /\ \A w \in Paths :
              (call.winningIndex = w /\ call'.proxyControllers[w] # call.proxyControllers[w])
                  => SignalAborts]_vars

\* Proxy 1 won and is downloading with its controller untouched; the other two
\* controllers are aborted.
C20_Witness ==
    /\ call.winningIndex = 1
    /\ call.fetchPromises[1] = "reading"
    /\ call.proxyControllers[1] = "live"
    /\ call.abortCalls[1] = 0
    /\ call.proxyControllers[0] = "aborted"
    /\ call.proxyControllers[2] = "aborted"
    /\ ~call.aborted

\* C21 (losers' settlements are discarded): the rejections of the attempts
\* aborted by the winner do not end the call, a call that returned a text has
\* no error and every attempt but the winner is rejected, and nothing that
\* happens after the Success changes the text or the outcome.
C21_LosersDiscarded ==
    /\ [][(call.state = "pending" /\ observed' # observed)
             => (call'.state = "pending" /\ call'.error = "none")]_vars
    /\ [](call.state = "fulfilled"
             => /\ call.error = "none"
                /\ call.result = BodyOf(call.winningIndex)
                /\ \A j \in Paths \ {call.winningIndex} :
                       call.fetchPromises[j] \in RejectedStates)
    /\ [][call.state = "fulfilled"
             => (call'.state = "fulfilled" /\ call'.result = call.result
                                           /\ call'.error = "none")]_vars

\* Proxy 0 won and delivered; proxy 1 had failed by itself, proxy 2 was
\* aborted as a loser; the timer fired later and the call is still the Success.
C21_Witness ==
    /\ call.state = "fulfilled"
    /\ call.result = BodyOf(0)
    /\ call.fetchPromises[1] = "HTTP"
    /\ call.fetchPromises[2] = "AbortError"
    /\ call.timer = "fired"
    /\ call.error = "none"

\* C23 (a late deadline is harmless): the timer is still set when the call
\* returns a text, and when it fires after that nothing changes but the timer.
C23_LateDeadline ==
    /\ [](call.state = "fulfilled" => call.timer # "unset")
    /\ [][(TimerFires /\ call.state = "fulfilled")
             => call' = [call EXCEPT !.timer = "fired"]]_vars

\* The call returned proxy 2's text, the timer fired afterwards: no controller
\* of the winner aborted, the three labels and nothing more.
C23_Witness ==
    /\ call.state = "fulfilled"
    /\ call.timer = "fired"
    /\ call.result = BodyOf(2)
    /\ call.proxyControllers[2] = "live"
    /\ call.statusLog = <<Connecting, Downloading, Parsing>>
    /\ ~call.aborted

----------------------------------------------------------------------------
\* The App component: the user loads feeds and cancels; the network answers
\* each request's proxies in any order and in any way.

InitApp ==
    /\ plan = [i \in Paths |-> "hang"]
    /\ call = NotCalled
    /\ cancelSignals = 0
    /\ observed = <<>>
    /\ app = Mounted

\* The mount effect, the form, a saved feed or a sample feed calls
\* handleLoadFeed; nothing is disabled while a load is running.
LoadFeed ==
    /\ app.started < MaxRequests
    /\ app' = handleLoadFeed(app)
    /\ UNCHANGED <<plan, call, cancelSignals, observed>>

\* The Cancel button, rendered while isLoading.
CancelLoad ==
    /\ app.isLoading
    /\ app' = handleCancelLoad(app)
    /\ UNCHANGED <<plan, call, cancelSignals, observed>>

\* A proxy of request r answers with an OK status.
ProxyResponseOk(r, i) ==
    /\ app.reqs[r].fetchPromises[i] = "fetching"
    /\ app' = event(app, r, onResponseOk(app.reqs[r], i), FALSE)
    /\ UNCHANGED <<plan, call, cancelSignals, observed>>

\* A proxy of request r answers with a non-OK status, or the request to it
\* fails.
ProxyFails(r, i) ==
    /\ app.reqs[r].fetchPromises[i] = "fetching"
    /\ \E s \in {"HTTP", "TypeError"} :
           app' = event(app, r, onSettled(app.reqs[r], i, s), FALSE)
    /\ UNCHANGED <<plan, call, cancelSignals, observed>>

\* The body of request r arrives through proxy i; it parses as a feed or not.
ProxyBodyArrives(r, i) ==
    /\ app.reqs[r].fetchPromises[i] = "reading"
    /\ \E parsed \in BOOLEAN :
           app' = event(app, r, onSettled(app.reqs[r], i, "text"), parsed)
    /\ UNCHANGED <<plan, call, cancelSignals, observed>>

\* The body download of request r through proxy i breaks.
ProxyBodyFault(r, i) ==
    /\ app.reqs[r].fetchPromises[i] = "reading"
    /\ app' = event(app, r, onSettled(app.reqs[r], i, "BodyError"), FALSE)
    /\ UNCHANGED <<plan, call, cancelSignals, observed>>

\* The 45 s timer of request r fires.
RequestDeadlineFires(r) ==
    /\ app.reqs[r].timer = "armed"
    /\ app' = event(app, r, onTimeout(app.reqs[r]), FALSE)
    /\ UNCHANGED <<plan, call, cancelSignals, observed>>

NextApp ==
    \/ LoadFeed
    \/ CancelLoad
    \/ \E r \in Requests, i \in Paths : ProxyResponseOk(r, i)
    \/ \E r \in Requests, i \in Paths : ProxyFails(r, i)
    \/ \E r \in Requests, i \in Paths : ProxyBodyArrives(r, i)
    \/ \E r \in Requests, i \in Paths : ProxyBodyFault(r, i)
    \/ \E r \in Requests : RequestDeadlineFires(r)

AppSpec == InitApp /\ [][NextApp]_vars

\* The requests whose handleLoadFeed is awaiting parseFeed, and those of them
\* whose signal is not aborted.
InFlight == {r \in Requests : app.handler[r] = "awaiting"}

LiveInFlight == {r \in InFlight : ~app.reqs[r].aborted}

\* The step in which request r's handleLoadFeed runs its try/catch/finally.
Settles(r) == app.handler[r] = "awaiting" /\ app'.handler[r] = "done"

\* The step in which request r's onStatus delivers a label.
EmitsStatus(r) == Len(app'.reqs[r].statusLog) > Len(app.reqs[r].statusLog)

\* C22 (Cancelled is silent): a request that settles with its signal aborted
\* or with the error Cancelled sets neither the error banner nor the feed;
\* whoever set the banner was not aborted and did not set it to Cancelled, and
\* the feed shown was not installed by an aborted request.
C22_CancelledIsSilent ==
    /\ [][\A r \in Requests :
             (Settles(r) /\ (app'.reqs[r].aborted \/ app'.reqs[r].error = Cancelled))
                 => (app'.errorBy # r /\ app'.feed # r)]_vars
    /\ [](app.errorBy # 0 => (~app.reqs[app.errorBy].aborted /\ app.error # Cancelled))
    /\ [](app.feed # 0 => ~app.reqs[app.feed].aborted)

\* The first load was cancelled with the button: its call threw Cancelled,
\* its handleLoadFeed has finished, and there is no banner and no feed.
C22_Witness ==
    /\ app.started = 1
    /\ app.handler[1] = "done"
    /\ app.reqs[1].aborted
    /\ app.reqs[1].error = Cancelled
    /\ app.error = "null"
    /\ app.feed = 0
    /\ ~app.isLoading

\* C24 (superseding requests): at most one request with a non-aborted signal
\* is in flight, it is the one held in abortControllerRef and the last one
\* started; a new load leaves only itself in flight and not aborted; the feed
\* is only ever set by the most recently started request.
C24_Superseding ==
    /\ [](Cardinality(LiveInFlight) <= 1)
    /\ [](\A r \in LiveInFlight : app.abortControllerRef = r /\ app.started = r)
    /\ [][app'.started # app.started => LiveInFlight' = {app'.started}]_vars
    /\ [][app'.feed # app.feed => app'.feed = app.started]_vars

\* The second load was started while the first was in flight: the first was
\* aborted and ended Cancelled, the second installed its feed.
C24_Witness ==
    /\ app.started = 2
    /\ app.reqs[1].aborted
    /\ app.reqs[1].error = Cancelled
    /\ app.handler[1] = "done"
    /\ app.handler[2] = "done"
    /\ app.feed = 2

\* C25 (loading flag): isLoading is true exactly when a request with a
\* non-aborted signal is in flight, and the settling of an aborted request
\* leaves the flag of the request that replaced it set.
C25_LoadingFlag ==
    /\ [](app.isLoading <=> LiveInFlight # {})
    /\ [][\A r \in Requests :
             (Settles(r) /\ app'.reqs[r].aborted /\ LiveInFlight' # {})
                 => app'.isLoading]_vars

\* The first load was superseded and has settled as Cancelled; the second is
\* still in flight, one of its proxies has answered, and the flag is set.
C25_Witness ==
    /\ app.handler[1] = "done"
    /\ app.reqs[1].aborted
    /\ app.handler[2] = "awaiting"
    /\ app.reqs[2].winningIndex # -1
    /\ app.isLoading
    /\ app.loadingStatus = Downloading

\* C26 (no stale status): every label delivered to setLoadingStatus comes from
\* the request held in abortControllerRef (before the step, or by it).
C26_NoStaleStatus ==
    [][\A r \in Requests :
          EmitsStatus(r) => (app.abortControllerRef = r \/ app'.abortControllerRef = r)]_vars

====
